---- MODULE Spec2Model ----
(***************************************************************************)
(* Model of the wildcard radix trie of src/src/lib.rs.                     *)
(*                                                                         *)
(* A Rust String is modelled as a sequence of characters together with the *)
(* UTF-8 width of every character, because the code counts common prefixes *)
(* in characters (count_common_prefix_chars) and uses the count as a byte  *)
(* offset (String::len, String::split_off, &path[n..]).  A byte offset that *)
(* is not a character boundary makes split_off and slicing panic.          *)
(*                                                                         *)
(* Option<T> is modelled as a sequence of length at most one: None is <<>>, *)
(* Some(v) is <<v>>.                                                        *)
(***************************************************************************)
EXTENDS Integers, Sequences, FiniteSets, TLC

\* Longest clean path (in characters) the operations are called with.
MaxLen == 2
\* Number of public calls (insert, get, remove) in one run.
MaxOps == 3
\* Number of distinct values of the generic type T.
NumValues == 2

\* The characters paths are made of.  "U" stands for a character whose UTF-8
\* encoding is two bytes long (such as U+00E9); the others are ASCII.
Chars == {"/", "*", "U"}
Values == 1..NumValues

None == <<>>
Some(v) == <<v>>
\* Option::or
OrElse(a, b) == IF a # None THEN a ELSE b

\* const WILDCARD_SUFFIX: &str = "/*"
WILDCARD_SUFFIX == <<"/", "*">>

\* char::len_utf8
Utf8Width(c) == IF c = "U" THEN 2 ELSE 1

\* str::len: the length in bytes
RECURSIVE ByteLen(_)
ByteLen(s) == IF s = <<>> THEN 0 ELSE Utf8Width(Head(s)) + ByteLen(Tail(s))

\* str::is_char_boundary
IsCharBoundary(s, n) == \E k \in 0..Len(s) : ByteLen(SubSeq(s, 1, k)) = n

\* The number of characters that end at byte offset n (n a char boundary).
CharsAt(s, n) == CHOOSE k \in 0..Len(s) : ByteLen(SubSeq(s, 1, k)) = n

\* &s[n..]: defined on char boundaries only (a panic otherwise)
SliceFrom(s, n) == SubSeq(s, CharsAt(s, n) + 1, Len(s))
\* &s[..n], the part String::split_off(n) leaves behind
SliceTo(s, n) == SubSeq(s, 1, CharsAt(s, n))

\* All character sequences of length at most n
RECURSIVE SeqsUpTo(_)
SeqsUpTo(n) ==
    IF n = 0 THEN {<<>>}
    ELSE LET shorter == SeqsUpTo(n - 1)
         IN  shorter \cup {Append(s, c) : s \in {t \in shorter : Len(t) = n - 1}, c \in Chars}

CleanPaths == SeqsUpTo(MaxLen)
\* A long path of many empty segments: "////..."
DeepPath == [i \in 1..(MaxLen + 2) |-> "/"]
\* A path with a multi-byte character inside: "/U/"
MixedPath == <<"/", "U", "/">>
\* A path with the wildcard marker inside: "/*/"
MarkerInside == <<"/", "*", "/">>
\* The arguments of insert, get and remove: a path with or without the marker,
\* the long path, the mixed path and the path with the marker inside
RawPaths ==
    CleanPaths \cup {p \o WILDCARD_SUFFIX : p \in CleanPaths}
        \cup {DeepPath, MixedPath, MarkerInside}

IsAscii(s) == \A i \in 1..Len(s) : Utf8Width(s[i]) = 1
IsPrefixOf(b, q) == Len(b) <= Len(q) /\ SubSeq(q, 1, Len(b)) = b

----
\* RadixNode::new
NewNode(prefix) ==
    [prefix |-> prefix, children |-> <<>>, exact_value |-> None, wildcard_value |-> None]

\* HashMap::insert on the child map
PutChild(children, c, node) ==
    [k \in (DOMAIN children) \cup {c} |-> IF k = c THEN node ELSE children[k]]

\* RadixNode::store_value
store_value(node, value, is_wildcard) ==
    IF is_wildcard THEN [node EXCEPT !.wildcard_value = Some(value)]
    ELSE [node EXCEPT !.exact_value = Some(value)]

\* RadixNode::take_value: the node afterwards and the value taken
take_value(node, is_wildcard) ==
    IF is_wildcard
    THEN [node |-> [node EXCEPT !.wildcard_value = None], ret |-> node.wildcard_value, ok |-> TRUE]
    ELSE [node |-> [node EXCEPT !.exact_value = None], ret |-> node.exact_value, ok |-> TRUE]

\* RadixNode::count_common_prefix_chars: a count of characters
RECURSIVE CommonChars(_, _)
CommonChars(a, b) ==
    IF a = <<>> \/ b = <<>> \/ Head(a) # Head(b) THEN 0
    ELSE 1 + CommonChars(Tail(a), Tail(b))

count_common_prefix_chars(node, path) == CommonChars(node.prefix, path)

\* split_at as it would be if the wildcard value were left out of the move to
\* the new child
split_at_dropping_wildcard(node, split_position) ==
    IF split_position >= ByteLen(node.prefix) THEN [node |-> node, ok |-> TRUE]
    ELSE IF ~IsCharBoundary(node.prefix, split_position) THEN [node |-> node, ok |-> FALSE]
    ELSE LET suffix == SliceFrom(node.prefix, split_position)
             new_child == [prefix |-> suffix,
                           children |-> node.children,
                           exact_value |-> node.exact_value,
                           wildcard_value |-> None]
         IN  [node |-> [prefix |-> SliceTo(node.prefix, split_position),
                        children |-> PutChild(<<>>, Head(suffix), new_child),
                        exact_value |-> None,
                        wildcard_value |-> None],
              ok |-> TRUE]

\* split_at as it would be if the values stayed on the shortened node instead
\* of moving to the new child
split_at_keeping_values(node, split_position) ==
    IF split_position >= ByteLen(node.prefix) THEN [node |-> node, ok |-> TRUE]
    ELSE IF ~IsCharBoundary(node.prefix, split_position) THEN [node |-> node, ok |-> FALSE]
    ELSE LET suffix == SliceFrom(node.prefix, split_position)
             new_child == [prefix |-> suffix,
                           children |-> node.children,
                           exact_value |-> None,
                           wildcard_value |-> None]
         IN  [node |-> [prefix |-> SliceTo(node.prefix, split_position),
                        children |-> PutChild(<<>>, Head(suffix), new_child),
                        exact_value |-> node.exact_value,
                        wildcard_value |-> node.wildcard_value],
              ok |-> TRUE]

\* split_at as it would be if the new child were keyed by the first character
\* of the whole old prefix instead of the first character of the part it keeps
split_at_keyed_by_old_prefix(node, split_position) ==
    IF split_position >= ByteLen(node.prefix) THEN [node |-> node, ok |-> TRUE]
    ELSE IF ~IsCharBoundary(node.prefix, split_position) THEN [node |-> node, ok |-> FALSE]
    ELSE LET suffix == SliceFrom(node.prefix, split_position)
             new_child == [prefix |-> suffix,
                           children |-> node.children,
                           exact_value |-> node.exact_value,
                           wildcard_value |-> node.wildcard_value]
         IN  [node |-> [prefix |-> SliceTo(node.prefix, split_position),
                        children |-> PutChild(<<>>, Head(node.prefix), new_child),
                        exact_value |-> None,
                        wildcard_value |-> None],
              ok |-> TRUE]

\* RadixNode::split_at; ok is FALSE when String::split_off panics
split_at(node, split_position) ==
    IF split_position >= ByteLen(node.prefix) THEN [node |-> node, ok |-> TRUE]
    ELSE IF ~IsCharBoundary(node.prefix, split_position) THEN [node |-> node, ok |-> FALSE]
    ELSE LET suffix == SliceFrom(node.prefix, split_position)
             new_child == [prefix |-> suffix,
                           children |-> node.children,
                           exact_value |-> node.exact_value,
                           wildcard_value |-> node.wildcard_value]
         IN  [node |-> [prefix |-> SliceTo(node.prefix, split_position),
                        children |-> PutChild(<<>>, Head(suffix), new_child),
                        exact_value |-> None,
                        wildcard_value |-> None],
              ok |-> TRUE]

\* insert as it would be if insert_in_child took the child-map key from the
\* wrong end of the remaining path (its last character instead of its first)
RECURSIVE insert_keyed_by_last_char(_, _, _, _)
insert_keyed_by_last_char(node, path, value, is_wildcard) ==
    IF path = <<>> THEN [node |-> store_value(node, value, is_wildcard), ok |-> TRUE]
    ELSE
      LET common_length == count_common_prefix_chars(node, path)
          split == IF common_length < ByteLen(node.prefix)
                   THEN split_at(node, common_length)
                   ELSE [node |-> node, ok |-> TRUE]
          self == split.node
      IN  IF ~split.ok THEN split
          ELSE IF common_length < ByteLen(path)
          THEN IF ~IsCharBoundary(path, common_length) THEN [node |-> self, ok |-> FALSE]
               ELSE LET remaining_path == SliceFrom(path, common_length)
                        first_char == remaining_path[Len(remaining_path)]
                        child == IF first_char \in DOMAIN self.children
                                 THEN self.children[first_char]
                                 ELSE NewNode(remaining_path)
                        r == insert_keyed_by_last_char(child, remaining_path,
                                                       value, is_wildcard)
                    IN  [node |-> [self EXCEPT !.children = PutChild(@, first_char, r.node)],
                         ok |-> r.ok]
          ELSE [node |-> store_value(self, value, is_wildcard), ok |-> TRUE]

\* RadixNode::insert with RadixNode::insert_in_child; ok is FALSE when the
\* call panics, and node is then the tree as the panic leaves it.
RECURSIVE insert(_, _, _, _)
insert(node, path, value, is_wildcard) ==
    IF path = <<>> THEN [node |-> store_value(node, value, is_wildcard), ok |-> TRUE]
    ELSE
      LET common_length == count_common_prefix_chars(node, path)
          split == IF common_length < ByteLen(node.prefix)
                   THEN split_at(node, common_length)
                   ELSE [node |-> node, ok |-> TRUE]
          self == split.node
      IN  IF ~split.ok THEN split
          ELSE IF common_length < ByteLen(path)
          THEN IF ~IsCharBoundary(path, common_length) THEN [node |-> self, ok |-> FALSE]
               ELSE LET remaining_path == SliceFrom(path, common_length)
                        first_char == Head(remaining_path)
                        child == IF first_char \in DOMAIN self.children
                                 THEN self.children[first_char]
                                 ELSE NewNode(remaining_path)
                        r == insert(child, remaining_path, value, is_wildcard)
                    IN  [node |-> [self EXCEPT !.children = PutChild(@, first_char, r.node)],
                         ok |-> r.ok]
          ELSE [node |-> store_value(self, value, is_wildcard), ok |-> TRUE]

\* get_with_fallback as it would be if a node the path diverges in
\* contributed its own wildcard: the partial match returns current_fallback
RECURSIVE get_with_own_wildcard_on_divergence(_, _, _)
get_with_own_wildcard_on_divergence(node, path, fallback) ==
    LET current_fallback == OrElse(node.wildcard_value, fallback)
    IN  IF path = <<>>
        THEN [ret |-> OrElse(OrElse(node.exact_value, node.wildcard_value), fallback),
              ok |-> TRUE]
        ELSE
          LET common_length == count_common_prefix_chars(node, path)
          IN  IF common_length = ByteLen(node.prefix)
              THEN IF ~IsCharBoundary(path, common_length)
                   THEN [ret |-> None, ok |-> FALSE]
                   ELSE LET remaining_path == SliceFrom(path, common_length)
                        IN  IF remaining_path = <<>>
                            THEN [ret |-> OrElse(OrElse(node.exact_value, node.wildcard_value),
                                                 current_fallback),
                                  ok |-> TRUE]
                            ELSE LET first_char == Head(remaining_path)
                                 IN  IF first_char \in DOMAIN node.children
                                     THEN get_with_own_wildcard_on_divergence(
                                              node.children[first_char],
                                              remaining_path, current_fallback)
                                     ELSE [ret |-> current_fallback, ok |-> TRUE]
              ELSE [ret |-> current_fallback, ok |-> TRUE]

\* RadixNode::get_with_fallback with RadixNode::search_in_child: ret is the
\* Option returned; ok is FALSE when slicing the path panics.
RECURSIVE get_with_fallback(_, _, _)
get_with_fallback(node, path, fallback) ==
    LET current_fallback == OrElse(node.wildcard_value, fallback)
    IN  IF path = <<>>
        THEN [ret |-> OrElse(OrElse(node.exact_value, node.wildcard_value), fallback),
              ok |-> TRUE]
        ELSE
          LET common_length == count_common_prefix_chars(node, path)
          IN  IF common_length = ByteLen(node.prefix)
              THEN IF ~IsCharBoundary(path, common_length)
                   THEN [ret |-> None, ok |-> FALSE]
                   ELSE LET remaining_path == SliceFrom(path, common_length)
                        IN  IF remaining_path = <<>>
                            THEN [ret |-> OrElse(OrElse(node.exact_value, node.wildcard_value),
                                                 current_fallback),
                                  ok |-> TRUE]
                            ELSE LET first_char == Head(remaining_path)
                                 IN  IF first_char \in DOMAIN node.children
                                     THEN get_with_fallback(node.children[first_char],
                                                            remaining_path, current_fallback)
                                     ELSE [ret |-> current_fallback, ok |-> TRUE]
              ELSE [ret |-> fallback, ok |-> TRUE]

\* RadixNode::get
get(node, path) == get_with_fallback(node, path, None)

\* remove as it would be with a compaction pass: a child left without value
\* and without children is dropped from the child map
RECURSIVE remove_pruning(_, _, _)
remove_pruning(node, path, is_wildcard) ==
    IF path = <<>> THEN take_value(node, is_wildcard)
    ELSE
      LET common_length == count_common_prefix_chars(node, path)
      IN  IF common_length # ByteLen(node.prefix)
          THEN [node |-> node, ret |-> None, ok |-> TRUE]
          ELSE IF ~IsCharBoundary(path, common_length)
          THEN [node |-> node, ret |-> None, ok |-> FALSE]
          ELSE LET remaining_path == SliceFrom(path, common_length)
               IN  IF remaining_path = <<>> THEN take_value(node, is_wildcard)
                   ELSE LET first_char == Head(remaining_path)
                        IN  IF first_char \in DOMAIN node.children
                            THEN LET r == remove_pruning(node.children[first_char],
                                                         remaining_path, is_wildcard)
                                     gone == /\ DOMAIN r.node.children = {}
                                             /\ r.node.exact_value = None
                                             /\ r.node.wildcard_value = None
                                     kept == IF gone THEN (DOMAIN node.children) \ {first_char}
                                             ELSE DOMAIN node.children
                                 IN  [node |-> [node EXCEPT !.children =
                                                   [k \in kept |-> IF k = first_char THEN r.node
                                                                   ELSE node.children[k]]],
                                      ret |-> r.ret, ok |-> r.ok]
                            ELSE [node |-> node, ret |-> None, ok |-> TRUE]

\* RadixNode::remove with RadixNode::remove_from_child: the node afterwards,
\* the Option returned, and ok FALSE when slicing the path panics.
RECURSIVE remove(_, _, _)
remove(node, path, is_wildcard) ==
    IF path = <<>> THEN take_value(node, is_wildcard)
    ELSE
      LET common_length == count_common_prefix_chars(node, path)
      IN  IF common_length # ByteLen(node.prefix)
          THEN [node |-> node, ret |-> None, ok |-> TRUE]
          ELSE IF ~IsCharBoundary(path, common_length)
          THEN [node |-> node, ret |-> None, ok |-> FALSE]
          ELSE LET remaining_path == SliceFrom(path, common_length)
               IN  IF remaining_path = <<>> THEN take_value(node, is_wildcard)
                   ELSE LET first_char == Head(remaining_path)
                        IN  IF first_char \in DOMAIN node.children
                            THEN LET r == remove(node.children[first_char],
                                                 remaining_path, is_wildcard)
                                 IN  [node |-> [node EXCEPT !.children[first_char] = r.node],
                                      ret |-> r.ret, ok |-> r.ok]
                            ELSE [node |-> node, ret |-> None, ok |-> TRUE]

\* The number of nodes RadixNode::insert visits (calls of insert on a node),
\* up to the panic when there is one
RECURSIVE insert_visits(_, _)
insert_visits(node, path) ==
    IF path = <<>> THEN 1
    ELSE
      LET common_length == count_common_prefix_chars(node, path)
          split == IF common_length < ByteLen(node.prefix)
                   THEN split_at(node, common_length)
                   ELSE [node |-> node, ok |-> TRUE]
          self == split.node
      IN  IF ~split.ok THEN 1
          ELSE IF common_length < ByteLen(path) /\ IsCharBoundary(path, common_length)
          THEN LET remaining_path == SliceFrom(path, common_length)
                   first_char == Head(remaining_path)
                   child == IF first_char \in DOMAIN self.children
                            THEN self.children[first_char]
                            ELSE NewNode(remaining_path)
               IN  1 + insert_visits(child, remaining_path)
          ELSE 1

\* The calls of split_at one RadixNode::insert makes, as <<depth of the node,
\* split_position>> (the root is at depth 0)
RECURSIVE insert_splits(_, _, _)
insert_splits(node, path, depth) ==
    IF path = <<>> THEN {}
    ELSE
      LET common_length == count_common_prefix_chars(node, path)
          called == IF common_length < ByteLen(node.prefix)
                    THEN {<<depth, common_length>>}
                    ELSE {}
          split == IF common_length < ByteLen(node.prefix)
                   THEN split_at(node, common_length)
                   ELSE [node |-> node, ok |-> TRUE]
          self == split.node
      IN  IF ~split.ok THEN called
          ELSE IF common_length < ByteLen(path) /\ IsCharBoundary(path, common_length)
          THEN LET remaining_path == SliceFrom(path, common_length)
                   first_char == Head(remaining_path)
                   child == IF first_char \in DOMAIN self.children
                            THEN self.children[first_char]
                            ELSE NewNode(remaining_path)
               IN  called \cup insert_splits(child, remaining_path, depth + 1)
          ELSE called

\* The number of nodes RadixNode::get_with_fallback visits
RECURSIVE get_visits(_, _)
get_visits(node, path) ==
    IF path = <<>> THEN 1
    ELSE
      LET common_length == count_common_prefix_chars(node, path)
      IN  IF common_length = ByteLen(node.prefix) /\ IsCharBoundary(path, common_length)
          THEN LET remaining_path == SliceFrom(path, common_length)
               IN  IF remaining_path # <<>> /\ Head(remaining_path) \in DOMAIN node.children
                   THEN 1 + get_visits(node.children[Head(remaining_path)], remaining_path)
                   ELSE 1
          ELSE 1

\* The number of nodes RadixNode::remove visits
RECURSIVE remove_visits(_, _)
remove_visits(node, path) ==
    IF path = <<>> THEN 1
    ELSE
      LET common_length == count_common_prefix_chars(node, path)
      IN  IF common_length = ByteLen(node.prefix) /\ IsCharBoundary(path, common_length)
          THEN LET remaining_path == SliceFrom(path, common_length)
               IN  IF remaining_path # <<>> /\ Head(remaining_path) \in DOMAIN node.children
                   THEN 1 + remove_visits(node.children[Head(remaining_path)], remaining_path)
                   ELSE 1
          ELSE 1

----
\* parse_path as it would be if it also normalised the root path "/" to the
\* empty path
parse_path_trimming_root(path) ==
    IF Len(path) >= 2 /\ SubSeq(path, Len(path) - 1, Len(path)) = WILDCARD_SUFFIX
    THEN [clean_path |-> SubSeq(path, 1, Len(path) - 2), is_wildcard |-> TRUE]
    ELSE IF path = <<"/">> THEN [clean_path |-> <<>>, is_wildcard |-> FALSE]
    ELSE [clean_path |-> path, is_wildcard |-> FALSE]

\* parse_path as it would be if any trailing "*" were taken for the marker
parse_path_any_star(path) ==
    IF Len(path) >= 2 /\ SubSeq(path, Len(path) - 1, Len(path)) = WILDCARD_SUFFIX
    THEN [clean_path |-> SubSeq(path, 1, Len(path) - 2), is_wildcard |-> TRUE]
    ELSE IF Len(path) >= 1 /\ path[Len(path)] = "*"
    THEN [clean_path |-> SubSeq(path, 1, Len(path) - 1), is_wildcard |-> TRUE]
    ELSE [clean_path |-> path, is_wildcard |-> FALSE]

\* Trie::parse_path (str::strip_suffix)
parse_path(path) ==
    IF Len(path) >= 2 /\ SubSeq(path, Len(path) - 1, Len(path)) = WILDCARD_SUFFIX
    THEN [clean_path |-> SubSeq(path, 1, Len(path) - 2), is_wildcard |-> TRUE]
    ELSE [clean_path |-> path, is_wildcard |-> FALSE]

\* Trie::insert
Trie_insert(root, path, value) ==
    LET parsed == parse_path(path)
    IN  insert(root, parsed.clean_path, value, parsed.is_wildcard)

\* Trie::get as it would be if it separated the marker as insert and remove do
Trie_get_parsing(root, path) == get(root, parse_path(path).clean_path)

\* Trie::get: the argument goes to the root unparsed
Trie_get(root, path) == get(root, path)

\* Trie::remove
Trie_remove(root, path) ==
    LET parsed == parse_path(path)
    IN  remove(root, parsed.clean_path, parsed.is_wildcard)

\* Trie::is_empty
\* is_empty as it would be if it forgot the root's wildcard slot
is_empty_ignoring_wildcard(root) ==
    /\ DOMAIN root.children = {}
    /\ root.exact_value = None

is_empty(root) ==
    /\ DOMAIN root.children = {}
    /\ root.exact_value = None
    /\ root.wildcard_value = None

\* Number of nodes of the tree under (and including) a node
RECURSIVE NodeCount(_)
RECURSIVE SumCounts(_, _)
SumCounts(children, keys) ==
    IF keys = {} THEN 0
    ELSE LET c == CHOOSE k \in keys : TRUE
         IN  NodeCount(children[c]) + SumCounts(children, keys \ {c})
NodeCount(node) == 1 + SumCounts(node.children, DOMAIN node.children)

\* The entries the tree stores: <<key, is_wildcard, value>> for every value
\* slot that is set, key being the concatenation of the prefixes from the root
\* (given as path) down to the node.
RECURSIVE EntriesUnder(_, _)
EntriesUnder(node, path) ==
    LET key == path \o node.prefix
    IN  {<<key, FALSE, node.exact_value[1]>> : x \in {1} \cap DOMAIN node.exact_value}
        \cup {<<key, TRUE, node.wildcard_value[1]>> : x \in {1} \cap DOMAIN node.wildcard_value}
        \cup UNION {EntriesUnder(node.children[c], key) : c \in DOMAIN node.children}

Entries(root) == EntriesUnder(root, <<>>)

\* The stored entries with the depth of their node (the root is at depth 0):
\* <<key, is_wildcard, value, depth>>
RECURSIVE EntryDepthsUnder(_, _, _)
EntryDepthsUnder(node, path, depth) ==
    LET key == path \o node.prefix
    IN  {<<key, FALSE, node.exact_value[1], depth>> : x \in {1} \cap DOMAIN node.exact_value}
        \cup {<<key, TRUE, node.wildcard_value[1], depth>> : x \in {1} \cap DOMAIN node.wildcard_value}
        \cup UNION {EntryDepthsUnder(node.children[c], key, depth + 1) : c \in DOMAIN node.children}

EntryDepths(root) == EntryDepthsUnder(root, <<>>, 0)

\* The concatenated keys of the nodes of the tree
RECURSIVE NodeKeysUnder(_, _)
NodeKeysUnder(node, path) ==
    {path \o node.prefix}
    \cup UNION {NodeKeysUnder(node.children[c], path \o node.prefix) : c \in DOMAIN node.children}

NodeKeys(root) == NodeKeysUnder(root, <<>>)

\* The structure of the tree: prefixes and child maps, without the values
RECURSIVE Shape(_)
Shape(node) ==
    [prefix |-> node.prefix,
     children |-> [c \in DOMAIN node.children |-> Shape(node.children[c])]]

----
(***************************************************************************)
(* The reference model: two maps keyed by clean path, exact and wildcard.  *)
(***************************************************************************)
EmptyMap == [p \in {} |-> None]
MapPut(m, k, v) == [x \in (DOMAIN m) \cup {k} |-> IF x = k THEN v ELSE m[x]]
MapDel(m, k) == [x \in (DOMAIN m) \ {k} |-> m[x]]
MapGet(m, k) == IF k \in DOMAIN m THEN Some(m[k]) ELSE None

\* The wildcard bases that cover q, and the longest of them
CoveringBases(W, q) == {b \in DOMAIN W : IsPrefixOf(b, q)}
LongestBase(W, q) ==
    CHOOSE b \in CoveringBases(W, q) : \A c \in CoveringBases(W, q) : Len(c) <= Len(b)

RefGet(E, W, q) ==
    IF q \in DOMAIN E THEN Some(E[q])
    ELSE IF CoveringBases(W, q) # {} THEN Some(W[LongestBase(W, q)])
    ELSE None

----
VARIABLES
    trie,       \* the root RadixNode of the Trie
    refE,       \* reference model: exact entries by clean path
    refW,       \* reference model: wildcard entries by clean path
    call,       \* the last public call: <<operation, path, value>>
    result,     \* what the last call returned (an Option)
    panicked,   \* a public call has panicked
    nops,       \* number of public calls made
    ninserts    \* number of insert calls made

vars == <<trie, refE, refW, call, result, panicked, nops, ninserts>>

\* A panic unwinds out of the public call and ends the run: no call follows
\* it.  The tree is kept as the panic leaves it, the reference maps as they
\* were before the call.

\* Trie::new / Trie::default
Init ==
    /\ trie = NewNode(<<>>)
    /\ refE = EmptyMap
    /\ refW = EmptyMap
    /\ call = <<"new", <<>>, 0>>
    /\ result = None
    /\ panicked = FALSE
    /\ nops = 0
    /\ ninserts = 0

\* trie.insert(path, value)
Insert(path, value) ==
    /\ ~panicked
    /\ nops < MaxOps
    /\ LET r == Trie_insert(trie, path, value)
           parsed == parse_path(path)
       IN  /\ trie' = r.node
           /\ panicked' = ~r.ok
           /\ refE' = IF r.ok /\ ~parsed.is_wildcard
                      THEN MapPut(refE, parsed.clean_path, value) ELSE refE
           /\ refW' = IF r.ok /\ parsed.is_wildcard
                      THEN MapPut(refW, parsed.clean_path, value) ELSE refW
    /\ call' = <<"insert", path, value>>
    /\ result' = None
    /\ nops' = nops + 1
    /\ ninserts' = ninserts + 1

\* trie.get(path)
Get(path) ==
    /\ ~panicked
    /\ nops < MaxOps
    /\ LET r == Trie_get(trie, path)
       IN  /\ result' = r.ret
           /\ panicked' = ~r.ok
    /\ call' = <<"get", path, 0>>
    /\ nops' = nops + 1
    /\ UNCHANGED <<trie, refE, refW, ninserts>>

\* trie.remove(path)
Remove(path) ==
    /\ ~panicked
    /\ nops < MaxOps
    /\ LET r == Trie_remove(trie, path)
           parsed == parse_path(path)
       IN  /\ trie' = r.node
           /\ result' = r.ret
           /\ panicked' = ~r.ok
           /\ refE' = IF r.ok /\ ~parsed.is_wildcard
                      THEN MapDel(refE, parsed.clean_path) ELSE refE
           /\ refW' = IF r.ok /\ parsed.is_wildcard
                      THEN MapDel(refW, parsed.clean_path) ELSE refW
    /\ call' = <<"remove", path, 0>>
    /\ nops' = nops + 1
    /\ UNCHANGED ninserts

Next ==
    \/ \E path \in RawPaths, value \in Values : Insert(path, value)
    \/ \E path \in RawPaths : Get(path)
    \/ \E path \in RawPaths : Remove(path)

Spec == Init /\ [][Next]_vars

----
(***************************************************************************)
(* Vocabulary of the properties.                                           *)
(***************************************************************************)
\* The paths get is asked about: the call arguments and every longer path
QueryPaths == RawPaths \cup SeqsUpTo(MaxLen + 1)

\* The key an insert or remove argument denotes: <<clean path, is_wildcard>>
KeyOf(path) == <<parse_path(path).clean_path, parse_path(path).is_wildcard>>

ExactEntries(root) == {e \in Entries(root) : ~e[2]}
WildEntries(root) == {e \in Entries(root) : e[2]}
\* The stored wildcard entries whose base is a prefix of q
Covering(root, q) == {w \in WildEntries(root) : IsPrefixOf(w[1], q)}
\* The stored entries of a key, and of all other keys
EntriesOf(root, key) == {e \in Entries(root) : <<e[1], e[2]>> = key}
Others(root, key) == {e \in Entries(root) : <<e[1], e[2]>> # key}

\* What the reference model holds under a key
RefAt(E, W, key) == MapGet(IF key[2] THEN W ELSE E, key[1])

SingleByte(P) == {q \in P : IsAscii(q)}

----
(***************************************************************************)
(* C1. After any sequence of insert and remove calls, get(q) of a path q   *)
(* of single-byte characters is what the reference model of two maps       *)
(* gives: E[q] if defined, otherwise W[b] for the longest wildcard base b  *)
(* that is a prefix of q, otherwise none.                                  *)
(***************************************************************************)
RefinesReference ==
    \A q \in SingleByte(QueryPaths) :
        Trie_get(trie, q) = [ret |-> RefGet(refE, refW, q), ok |-> TRUE]

\* Two wildcards cover a path that has no exact entry, beside an exact entry,
\* and get answers with the deeper wildcard.
RefinesReferenceWitness ==
    \E q \in SingleByte(QueryPaths) :
        /\ q \notin DOMAIN refE
        /\ DOMAIN refE # {}
        /\ Cardinality(CoveringBases(refW, q)) >= 2
        /\ Trie_get(trie, q).ret = Some(refW[LongestBase(refW, q)])

(***************************************************************************)
(* C2. Exact beats wildcard: where an exact value B is stored at p and a   *)
(* wildcard value for a base that is a prefix of p, get(p) returns B; a    *)
(* path under a wildcard base with no exact entry and no deeper wildcard   *)
(* returns the wildcard's value.                                           *)
(***************************************************************************)
ExactBeatsWildcardOver(P) ==
    ~panicked =>
        /\ \A e \in ExactEntries(trie) :
              (e[1] \in P /\ Covering(trie, e[1]) # {})
                  => Trie_get(trie, e[1]).ret = Some(e[3])
        /\ \A w \in WildEntries(trie), q \in P :
              ( /\ IsPrefixOf(w[1], q)
                /\ EntriesOf(trie, <<q, FALSE>>) = {}
                /\ \A c \in Covering(trie, q) : Len(c[1]) <= Len(w[1]) )
                  => Trie_get(trie, q).ret = Some(w[3])

ExactBeatsWildcard == ExactBeatsWildcardOver(QueryPaths)
\* The same over paths of single-byte characters, which holds
ExactBeatsWildcardSingleByte == ExactBeatsWildcardOver(SingleByte(QueryPaths))

(***************************************************************************)
(* C3. Wildcard scope: when one wildcard entry, of base b, is all the trie *)
(* stores, get(q) returns its value for every q that has b as a prefix and *)
(* none for every other q.                                                 *)
(***************************************************************************)
WildcardScopeOver(P) ==
    ~panicked =>
        \A w \in Entries(trie) :
            (w[2] /\ Entries(trie) = {w}) =>
                \A q \in P :
                    Trie_get(trie, q).ret = IF IsPrefixOf(w[1], q) THEN Some(w[3]) ELSE None

WildcardScope == WildcardScopeOver(QueryPaths)
\* The same over queries of single-byte characters, which holds
WildcardScopeSingleByte == WildcardScopeOver(SingleByte(QueryPaths))

(***************************************************************************)
(* C4. Round trip: insert(p, v) immediately followed by get(p) returns v,  *)
(* for every path p, with or without a trailing "/*".                      *)
(***************************************************************************)
RoundTripOver(P) ==
    (call[1] = "insert" /\ call[2] \in P /\ ~panicked)
        => Trie_get(trie, call[2]).ret = Some(call[3])

RoundTrip == RoundTripOver(RawPaths)
\* The same for single-byte paths that do not end in the marker, which holds
RoundTripExactSingleByte ==
    RoundTripOver({p \in SingleByte(RawPaths) : ~parse_path(p).is_wildcard})

(***************************************************************************)
(* C5. Removal: remove(p) returns the value most recently inserted under   *)
(* the key of p and not removed since, or none; right after insert(p, v)   *)
(* it returns v; and get(p) then returns none unless a wildcard entry      *)
(* whose base is a prefix of p covers it.                                  *)
(***************************************************************************)
RemoveStepOver(P) ==
    (call'[1] = "remove" /\ call'[2] \in P /\ ~panicked') =>
        /\ result' = RefAt(refE, refW, KeyOf(call'[2]))
        /\ (call[1] = "insert" /\ call[2] = call'[2] /\ ~panicked) => result' = Some(call[3])
        /\ CoveringBases(refW', call'[2]) = {} => Trie_get(trie', call'[2]).ret = None

RemoveReturnsStored == [][RemoveStepOver(RawPaths)]_vars
\* The same for paths of single-byte characters, which holds
RemoveReturnsStoredSingleByte == [][RemoveStepOver(SingleByte(RawPaths))]_vars

(***************************************************************************)
(* C6. No public operation fails: insert, get and remove complete without  *)
(* a panic for every input path, multi-byte characters included.           *)
(***************************************************************************)
NoPanic == ~panicked
\* Calls whose paths are made of single-byte characters never panic
NoPanicSingleByte == [][IsAscii(call'[2]) => ~panicked']_vars

(***************************************************************************)
(* C7. As claimed: get separates a trailing "/*" from its argument, so     *)
(* get(p ++ "/*") returns the same result as get(p).                       *)
(***************************************************************************)
GetStripsMarker ==
    \A p \in CleanPaths : Trie_get(trie, p \o WILDCARD_SUFFIX) = Trie_get(trie, p)

(***************************************************************************)
(* C7, amended. get traverses with its argument unchanged: get(p ++ "/*")  *)
(* looks up the literal string p ++ "/*", so it returns the value of a     *)
(* stored wildcard entry whose base is a prefix of that string, or none,   *)
(* and never the exact value stored at p for want of such a wildcard.      *)
(***************************************************************************)
GetTakesMarkerLiterally ==
    \A p \in CleanPaths :
        LET q == p \o WILDCARD_SUFFIX
            r == Trie_get(trie, q)
        IN  r.ok /\ r.ret \in {None} \cup {Some(w[3]) : w \in Covering(trie, q)}

\* get(p ++ "/*") has just returned none although get(p) finds the exact
\* value stored at p.
GetTakesMarkerLiterallyWitness ==
    \E p \in CleanPaths :
        /\ call = <<"get", p \o WILDCARD_SUFFIX, 0>>
        /\ result = None
        /\ EntriesOf(trie, <<p, FALSE>>) # {}
        /\ Trie_get(trie, p).ret # None

(***************************************************************************)
(* C8. Overwrite: inserting twice under the same key with v1 then v2       *)
(* leaves only v2 stored: get of an exact key returns v2, one remove       *)
(* returns v2 and a second remove returns none.                            *)
(***************************************************************************)
OverwriteStepOver(P) ==
    ( /\ call[1] = "insert" /\ ~panicked
      /\ call'[1] = "insert" /\ call'[2] \in P
      /\ KeyOf(call'[2]) = KeyOf(call[2]) ) =>
        LET key == KeyOf(call'[2])
            once == Trie_remove(trie', call'[2])
            twice == Trie_remove(once.node, call'[2])
        IN  /\ ~panicked'
            /\ EntriesOf(trie', key) = {<<key[1], key[2], call'[3]>>}
            /\ ~key[2] => Trie_get(trie', call'[2]).ret = Some(call'[3])
            /\ once.ret = Some(call'[3])
            /\ twice.ret = None

Overwrite == [][OverwriteStepOver(RawPaths)]_vars
\* The same for paths of single-byte characters, which holds
OverwriteSingleByte == [][OverwriteStepOver(SingleByte(RawPaths))]_vars

(***************************************************************************)
(* C9. Insert frame: insert(p, v) changes the stored value of the key of p *)
(* and of no other key, however nodes are split: every other entry,        *)
(* the other flag at the same clean path included, keeps its value; and    *)
(* an exact insert changes get(q) only for q = p.                          *)
(***************************************************************************)
InsertFrame ==
    [][call'[1] = "insert" =>
         LET key == KeyOf(call'[2])
         IN  /\ Others(trie', key) = Others(trie, key)
             /\ ~panicked' => EntriesOf(trie', key) = {<<key[1], key[2], call'[3]>>}
             /\ ~key[2] => \A q \in QueryPaths \ {call'[2]} :
                               Trie_get(trie', q) = Trie_get(trie, q)
      ]_vars

\* The third insert has split the node under the root: both flags of one clean
\* path are stored beside a third entry, below a node the split left empty.
InsertFrameWitness ==
    /\ call[1] = "insert"
    /\ ~panicked
    /\ ninserts = 3
    /\ nops = 3
    /\ NodeCount(trie) >= 4
    /\ \E c \in Chars :
          /\ DOMAIN trie.children = {c}
          /\ trie.children[c].exact_value = None
          /\ trie.children[c].wildcard_value = None
    /\ Cardinality(Entries(trie)) = 3
    /\ \E k \in CleanPaths :
          EntriesOf(trie, <<k, TRUE>>) # {} /\ EntriesOf(trie, <<k, FALSE>>) # {}

(***************************************************************************)
(* C10. Each insert adds at most two nodes to the tree, whatever the       *)
(* length and the number of segments of the path; after n inserts the tree *)
(* has at most 2n + 1 nodes.                                               *)
(***************************************************************************)
InsertStepNodesOver(P) ==
    (call'[1] = "insert" /\ call'[2] \in P) => NodeCount(trie') <= NodeCount(trie) + 2

InsertAddsAtMostTwoNodes ==
    /\ [][InsertStepNodesOver(RawPaths)]_vars
    /\ [](NodeCount(trie) <= 2 * ninserts + 1)
\* An insert of a path of single-byte characters adds at most two nodes,
\* which holds
InsertAddsAtMostTwoNodesSingleByte == [][InsertStepNodesOver(SingleByte(RawPaths))]_vars

(***************************************************************************)
(* C11. Bounded cost: in every reachable state and for every path p, each  *)
(* of get(p), insert(p, v) and remove(p) visits at most len(p) + 1 nodes,  *)
(* whatever the number of routes stored: every step into a non-root node   *)
(* consumes at least one character of the path.                            *)
(***************************************************************************)
BoundedVisits ==
    /\ \A p \in QueryPaths : get_visits(trie, p) <= Len(p) + 1
    /\ \A p \in RawPaths :
          /\ insert_visits(trie, parse_path(p).clean_path) <= Len(parse_path(p).clean_path) + 1
          /\ remove_visits(trie, parse_path(p).clean_path) <= Len(parse_path(p).clean_path) + 1

\* Three routes are stored and a lookup goes two nodes below the root
BoundedVisitsWitness ==
    /\ Cardinality(Entries(trie)) = 3
    /\ \E p \in QueryPaths : get_visits(trie, p) = 3 /\ Trie_get(trie, p).ret # None

(***************************************************************************)
(* C12. The empty path "" and the root path "/" are independent exact      *)
(* keys: insert("", E) makes get("") return E and leaves get("/") as it    *)
(* was, insert("/", R) makes get("/") return R and leaves get("") as it    *)
(* was, and removing one leaves the other stored.                          *)
(***************************************************************************)
EmptyPath == <<>>
RootPath == <<"/">>

EmptyAndRootStep(p, other) ==
    /\ (call'[1] = "insert" /\ call'[2] = p) =>
          /\ ~panicked'
          /\ Trie_get(trie', p).ret = Some(call'[3])
          /\ Trie_get(trie', other) = Trie_get(trie, other)
          /\ EntriesOf(trie', <<other, FALSE>>) = EntriesOf(trie, <<other, FALSE>>)
    /\ (call'[1] = "remove" /\ call'[2] = p) =>
          /\ ~panicked'
          /\ result' = RefAt(refE, refW, <<p, FALSE>>)
          /\ EntriesOf(trie', <<p, FALSE>>) = {}
          /\ EntriesOf(trie', <<other, FALSE>>) = EntriesOf(trie, <<other, FALSE>>)

EmptyAndRootIndependent ==
    [][EmptyAndRootStep(EmptyPath, RootPath) /\ EmptyAndRootStep(RootPath, EmptyPath)]_vars

\* Both keys were stored with different values and "" has just been removed:
\* "/" still returns its own value and "" returns none.
EmptyAndRootIndependentWitness ==
    /\ call = <<"remove", EmptyPath, 0>>
    /\ result # None
    /\ Trie_get(trie, RootPath).ret # None
    /\ Trie_get(trie, RootPath).ret # result
    /\ Trie_get(trie, EmptyPath).ret = None

(***************************************************************************)
(* C13. insert and remove recognise the wildcard marker only as one        *)
(* trailing "/*": a path with "/*" elsewhere, or ending in "*" without a   *)
(* "/" before it, is an exact key of ordinary characters that matches only *)
(* itself, and of a path ending in "/*/*" only the last marker is          *)
(* stripped.                                                               *)
(***************************************************************************)
EndsWithMarker(p) == Len(p) >= 2 /\ p[Len(p) - 1] = "/" /\ p[Len(p)] = "*"
\* The key as the claim states it
MarkerKey(p) ==
    IF EndsWithMarker(p) THEN <<SubSeq(p, 1, Len(p) - 2), TRUE>> ELSE <<p, FALSE>>

MarkerStep ==
    /\ (call'[1] = "insert" /\ ~panicked') =>
          /\ EntriesOf(trie', MarkerKey(call'[2]))
                 = {<<MarkerKey(call'[2])[1], MarkerKey(call'[2])[2], call'[3]>>}
          /\ Others(trie', MarkerKey(call'[2])) = Others(trie, MarkerKey(call'[2]))
          /\ ~EndsWithMarker(call'[2]) =>
                \A q \in QueryPaths \ {call'[2]} : Trie_get(trie', q) = Trie_get(trie, q)
    /\ (call'[1] = "remove" /\ ~panicked') =>
          /\ result' \in {None} \cup {Some(e[3]) : e \in EntriesOf(trie, MarkerKey(call'[2]))}
          /\ Others(trie', MarkerKey(call'[2])) = Others(trie, MarkerKey(call'[2]))

MarkerOnlyTrailing == [][MarkerStep]_vars

\* Stored together: the path with the marker inside and a path ending in a
\* lone "*", both as exact keys, and a wildcard whose base itself ends in "/*"
\* (from a path ending in "/*/*").
MarkerOnlyTrailingWitness ==
    /\ ~panicked
    /\ EntriesOf(trie, <<MarkerInside, FALSE>>) # {}
    /\ \E p \in CleanPaths :
          /\ Len(p) >= 1 /\ p[Len(p)] = "*" /\ ~EndsWithMarker(p)
          /\ EntriesOf(trie, <<p, FALSE>>) # {}
    /\ EntriesOf(trie, <<WILDCARD_SUFFIX, TRUE>>) # {}

(***************************************************************************)
(* C14. Deepest wildcard wins: with wildcard values stored for two bases   *)
(* b1 and b2, b1 a proper prefix of b2, get(q) returns the b2 value for    *)
(* every q that has b2 as a prefix and no exact entry, and the b1 value    *)
(* for every q that has b1 but not b2 as a prefix and no exact entry       *)
(* (no other stored wildcard being a deeper match for q).                  *)
(***************************************************************************)
DeepestWildcardWinsOver(P) ==
    ~panicked =>
        \A w1 \in WildEntries(trie), w2 \in WildEntries(trie) :
            (IsPrefixOf(w1[1], w2[1]) /\ w1[1] # w2[1]) =>
                \A q \in P :
                    ( /\ EntriesOf(trie, <<q, FALSE>>) = {}
                      /\ IsPrefixOf(w1[1], q) ) =>
                        /\ (IsPrefixOf(w2[1], q)
                             /\ \A c \in Covering(trie, q) : Len(c[1]) <= Len(w2[1]))
                               => Trie_get(trie, q).ret = Some(w2[3])
                        /\ (~IsPrefixOf(w2[1], q)
                             /\ \A c \in Covering(trie, q) : Len(c[1]) <= Len(w1[1]))
                               => Trie_get(trie, q).ret = Some(w1[3])

DeepestWildcardWins == DeepestWildcardWinsOver(QueryPaths)
\* The same over queries of single-byte characters, which holds
DeepestWildcardWinsSingleByte == DeepestWildcardWinsOver(SingleByte(QueryPaths))

(***************************************************************************)
(* C15. Remove frame: remove never changes a node's prefix or child map    *)
(* (no splitting, merging or pruning); it changes at most one value slot,  *)
(* from set to empty; and when it returns none the whole trie is           *)
(* unchanged.                                                              *)
(***************************************************************************)
RemoveFrame ==
    [][call'[1] = "remove" =>
         /\ Shape(trie') = Shape(trie)
         /\ Entries(trie') \subseteq Entries(trie)
         /\ Cardinality(Entries(trie) \ Entries(trie')) <= 1
         /\ result' = None => trie' = trie
         /\ result' # None =>
               Entries(trie) \ Entries(trie') =
                   {<<KeyOf(call'[2])[1], KeyOf(call'[2])[2], result'[1]>>}
      ]_vars

\* A remove has just taken a value out of a tree of three nodes or more, and
\* the nodes are all still there although only one value is left.
RemoveFrameWitness ==
    /\ call[1] = "remove"
    /\ result # None
    /\ Cardinality(Entries(trie)) = 1
    /\ NodeCount(trie) >= 3

(***************************************************************************)
(* C16. In every reachable state every entry of every node's child map is  *)
(* keyed by the first character of that child's prefix, so the prefixes of *)
(* two siblings start with distinct characters; insert (with its split)    *)
(* and remove preserve this.                                               *)
(***************************************************************************)
RECURSIVE KeysOk(_)
KeysOk(node) ==
    \A c \in DOMAIN node.children :
        /\ node.children[c].prefix # <<>>
        /\ Head(node.children[c].prefix) = c
        /\ KeysOk(node.children[c])

RECURSIVE SiblingsDistinct(_)
SiblingsDistinct(node) ==
    /\ \A c, d \in DOMAIN node.children :
          c # d => node.children[c].prefix[1] # node.children[d].prefix[1]
    /\ \A c \in DOMAIN node.children : SiblingsDistinct(node.children[c])

ChildKeys == KeysOk(trie) /\ SiblingsDistinct(trie)

\* A split has happened below the root: the root's only child carries no
\* value and has two children of its own.
ChildKeysWitness ==
    /\ nops = ninserts
    /\ \E c \in DOMAIN trie.children :
          /\ Len(trie.children[c].prefix) = 1
          /\ Cardinality(DOMAIN trie.children[c].children) = 2

(***************************************************************************)
(* C17. In every reachable state every stored value (exact or wildcard)    *)
(* sits at the node whose root-to-node concatenation of prefixes equals    *)
(* the clean path it was inserted under; a split moves a node's values and *)
(* children one level down without changing the concatenated key of any of *)
(* them.  Stated on the steps: the tree starts without entries, an insert  *)
(* puts its value at the key of its clean path and adds no other entry,    *)
(* every other entry and every node keeps its concatenated key and goes    *)
(* down by one level at most, and no other operation adds an entry.  An    *)
(* insert that panics returns nothing and is not covered.                  *)
(***************************************************************************)
StoredAtKeyStep ==
    LET key == KeyOf(call'[2])
        e == <<key[1], key[2], call'[3]>>
    IN  /\ call'[1] = "insert" /\ ~panicked' =>
              /\ e \in Entries(trie')
              /\ Entries(trie') = Others(trie, key) \cup {e}
              /\ NodeKeys(trie) \cup {key[1]} \subseteq NodeKeys(trie')
              /\ \A d \in EntryDepths(trie) :
                    <<d[1], d[2]>> # key =>
                        \/ d \in EntryDepths(trie')
                        \/ <<d[1], d[2], d[3], d[4] + 1>> \in EntryDepths(trie')
        /\ call'[1] # "insert" => Entries(trie') \subseteq Entries(trie)

StoredAtKey == [][StoredAtKeyStep]_vars

\* Two inserts of single-byte keys, and the second one has split the node of
\* the first: the first entry, which an insert into an empty tree leaves at
\* depth 1 at most, is at depth 2 under its own key.
StoredAtKeyWitness ==
    /\ nops = 2 /\ ninserts = 2
    /\ Cardinality(Entries(trie)) = 2
    /\ \A d \in EntryDepths(trie) : IsAscii(d[1])
    /\ \E d \in EntryDepths(trie) :
          /\ d[4] = 2
          /\ <<d[1], d[2]>> # KeyOf(call[2])

(***************************************************************************)
(* C18. is_empty() is true iff the trie holds no values and no structural  *)
(* children: whenever it is true, get(q) returns none for every path q; it *)
(* is true for a newly created trie; and a sequence that only inserts and  *)
(* removes values at the empty clean path never creates a child, so after  *)
(* it is_empty() is true as soon as the values it inserted have been       *)
(* removed again (it is true exactly when neither root slot is set).       *)
(***************************************************************************)
IsEmptyState ==
    /\ is_empty(trie) <=> (Entries(trie) = {} /\ NodeCount(trie) = 1)
    /\ is_empty(trie) => \A q \in QueryPaths : Trie_get(trie, q) = [ret |-> None, ok |-> TRUE]
    /\ nops = 0 => is_empty(trie)

IsEmptyStep ==
    LET key == KeyOf(call'[2])
    IN  (call'[1] \in {"insert", "remove"} /\ key[1] = <<>> /\ NodeCount(trie) = 1) =>
            /\ ~panicked'
            /\ NodeCount(trie') = 1
            /\ call'[1] = "remove" => EntriesOf(trie', key) = {}
            /\ is_empty(trie') <=> (EntriesOf(trie', <<(<<>>), FALSE>>) = {}
                                      /\ EntriesOf(trie', <<(<<>>), TRUE>>) = {})

RECURSIVE PrefixesNonEmptyBelow(_)
PrefixesNonEmptyBelow(node) ==
    \A c \in DOMAIN node.children :
        /\ node.children[c].prefix # <<>>
        /\ PrefixesNonEmptyBelow(node.children[c])

RootPrefixEmpty ==
    /\ trie.prefix = <<>>
    /\ PrefixesNonEmptyBelow(trie)
    /\ \A p \in RawPaths :
          \A sp \in insert_splits(trie, parse_path(p).clean_path, 0) :
              sp[1] > 0 /\ sp[2] > 0

\* The tree has nodes below the root, all of single-byte keys, and the next
\* insert of some path splits one of them.
RootPrefixEmptyWitness ==
    /\ NodeCount(trie) >= 3
    /\ \A k \in NodeKeys(trie) : IsAscii(k)
    /\ \E p \in RawPaths : IsAscii(p) /\ insert_splits(trie, parse_path(p).clean_path, 0) # {}

====
